---- MODULE Spec2Model ----
(***************************************************************************)
(* Model of the PDF analysis pipeline: the report step (pdf_report.py,     *)
(* beautify_report: report naming, Markdown table parsing, PDF output) and *)
(* the analysis script (pdf_analyzer.py: extraction, prepare_gemini_input, *)
(* send_to_gemini, clean_table_response, saving, cleanup).                 *)
(*                                                                         *)
(* Text is a sequence of one-character strings, so that str.strip and      *)
(* str.split are computed character by character as Python computes them.  *)
(***************************************************************************)
EXTENDS Integers, Sequences, FiniteSets, TLC

VARIABLES
    \* ---- beautify_report (pdf_report.py) ----
    src_lines,      \* the lines the first table_content was built from
    table_content,  \* argument of the pending / last beautify_report call
    headers,        \* local `headers` of the last call
    data,           \* local `data` of the last call
    raised,         \* TRUE when the last call raised while parsing
    calls,          \* number of beautify_report calls made
    first_data,     \* `data` of the first call
    rpc,            \* "ready": a call is pending, "done": the call returned
    now,            \* wall clock, in ticks (TicksPerSecond ticks a second)
    report_files,   \* files present in <output_dir>/reports
    render_log      \* report paths returned by the calls, in call order

report_vars == <<src_lines, table_content, headers, data, raised, calls,
                 first_data, rpc, now, report_files, render_log>>

VARIABLES
    \* ---- the analysis script (pdf_analyzer.py, __main__) ----
    args,             \* parsed arguments: mode, skip_gemini, cleanup
    doc,              \* the input PDF: is_file, opens, pages, text_pages
    loadable,         \* screenshot paths that Image.open can load
    pc,               \* position of the script
    extracted_text,   \* `extracted_text` (<<>> is None or "")
    screenshot_paths, \* `screenshot_paths`
    screenshot_files, \* page images present in the screenshots directory
    content_parts,    \* `content_parts`
    response,         \* outcome of the last client.models.generate_content
    engine_calls,     \* number of generate_content calls made
    gemini_response,  \* `gemini_response`
    text_output,      \* content of text_output_path (<<>>: no file)
    cleanup_idx,      \* index of the next img_path of the cleanup loop
    screenshots_dir   \* TRUE when the directory `screenshots_dir` exists

run_vars == <<args, doc, loadable, pc, extracted_text, screenshot_paths,
              screenshot_files, content_parts, response, engine_calls,
              gemini_response, text_output, cleanup_idx, screenshots_dir>>

VARIABLES
    \* ---- table layout of beautify_report (pdf_report.py lines 60-74) ----
    available_width,  \* `available_width`, a Python float
    col_widths,       \* `col_widths` (<<>> before it is computed)
    wpc               \* "input": widths not computed yet, "laid_out": computed

layout_vars == <<available_width, col_widths, wpc>>

vars == <<report_vars, run_vars, layout_vars>>

----------------------------------------------------------------------------
(* Bounds *)

MaxLines == 4          \* lines of an input text
MaxRenders == 3        \* beautify_report calls in a rendering run
MaxNow == 5            \* last clock tick
TicksPerSecond == 2    \* clock resolution of the model
MaxPages == 2          \* pages of the input PDF
MaxTenths == 60        \* widest available width, in tenths of a unit

----------------------------------------------------------------------------
(* Python string and list primitives *)

Whitespace == {" ", "\n", "\t"}

RECURSIVE LStrip(_)
LStrip(s) ==
    IF s = <<>> THEN s
    ELSE IF Head(s) \in Whitespace THEN LStrip(Tail(s)) ELSE s

RECURSIVE RStrip(_)
RStrip(s) ==
    IF s = <<>> THEN s
    ELSE IF s[Len(s)] \in Whitespace THEN RStrip(SubSeq(s, 1, Len(s) - 1))
    ELSE s

\* str.strip()
Strip(s) == RStrip(LStrip(s))

RECURSIVE SplitAcc(_, _, _)
SplitAcc(s, sep, cur) ==
    IF s = <<>> THEN <<cur>>
    ELSE IF Head(s) = sep THEN <<cur>> \o SplitAcc(Tail(s), sep, <<>>)
    ELSE SplitAcc(Tail(s), sep, Append(cur, Head(s)))

\* a split that yields no piece at all for the empty string (str.split()
\* without a separator behaves so)
SplitDropEmpty(s, sep) == IF s = <<>> THEN <<>> ELSE SplitAcc(s, sep, <<>>)

\* str.split(sep): always at least one piece
Split(s, sep) == SplitAcc(s, sep, <<>>)

\* seq[1:-1]
SliceInner(seq) ==
    IF Len(seq) <= 2 THEN <<>> ELSE SubSeq(seq, 2, Len(seq) - 1)

\* seq[k:] (k a Python index, k >= 0)
SliceFrom(seq, k) ==
    IF Len(seq) <= k THEN <<>> ELSE SubSeq(seq, k + 1, Len(seq))

RECURSIVE Join(_, _)
\* sep.join(parts)
Join(parts, sep) ==
    IF parts = <<>> THEN <<>>
    ELSE IF Len(parts) = 1 THEN parts[1]
    ELSE parts[1] \o sep \o Join(Tail(parts), sep)

----------------------------------------------------------------------------
(* Python float arithmetic (IEEE 754 binary64, round to nearest even) on   *)
(* positive normal numbers.  A natural number is a sequence of limbs, least *)
(* significant first, without leading zero limbs; a float is [m, e] with  *)
(* value m * 2^e and m of exactly Precision bits.  The operations are       *)
(* functions, so that every operand is evaluated once.                     *)

Precision == 53

Base == 2^14

Limbs == Seq(0..(Base - 1))

Floats == [m : Limbs, e : Int]

\* exact values x * 2^e
Exacts == [x : Limbs, e : Int]

Trim[a \in Limbs] ==
    IF a = <<>> THEN a
    ELSE IF a[Len(a)] = 0 THEN Trim[SubSeq(a, 1, Len(a) - 1)] ELSE a

RestOf(a) == IF a = <<>> THEN <<>> ELSE Tail(a)

LimbOf(a) == IF a = <<>> THEN 0 ELSE Head(a)

\* t[1] + t[2] + carry t[3]
BAddC[t \in Limbs \X Limbs \X {0, 1}] ==
    IF t[1] = <<>> /\ t[2] = <<>> THEN (IF t[3] = 0 THEN <<>> ELSE <<t[3]>>)
    ELSE <<(LimbOf(t[1]) + LimbOf(t[2]) + t[3]) % Base>>
         \o BAddC[<<RestOf(t[1]), RestOf(t[2]),
                    (LimbOf(t[1]) + LimbOf(t[2]) + t[3]) \div Base>>]

\* t[1] + t[2]
BAdd[t \in Limbs \X Limbs] == BAddC[<<t[1], t[2], 0>>]

\* t[1] - t[2] - borrow t[3], limb by limb
BSubB[t \in Limbs \X Limbs \X {0, 1}] ==
    IF t[1] = <<>> THEN <<>>
    ELSE <<(Head(t[1]) - LimbOf(t[2]) - t[3]) % Base>>
         \o BSubB[<<Tail(t[1]), RestOf(t[2]),
                    IF Head(t[1]) - LimbOf(t[2]) - t[3] < 0 THEN 1 ELSE 0>>]

\* t[1] - t[2], for t[1] >= t[2]
BSub[t \in Limbs \X Limbs] == Trim[BSubB[<<t[1], t[2], 0>>]]

\* t[1] < t[2], given that they agree above limb t[3]
BLessFrom[t \in Limbs \X Limbs \X Nat] ==
    IF t[3] = 0 THEN FALSE
    ELSE IF t[1][t[3]] # t[2][t[3]] THEN t[1][t[3]] < t[2][t[3]]
    ELSE BLessFrom[<<t[1], t[2], t[3] - 1>>]

\* t[1] < t[2]
BLess[t \in Limbs \X Limbs] ==
    IF Len(t[1]) # Len(t[2]) THEN Len(t[1]) < Len(t[2])
    ELSE BLessFrom[<<t[1], t[2], Len(t[1])>>]

\* t[1] * limb t[2] + carry t[3]
BMulLimb[t \in Limbs \X Nat \X Nat] ==
    IF t[1] = <<>> THEN (IF t[3] = 0 THEN <<>> ELSE <<t[3]>>)
    ELSE <<(Head(t[1]) * t[2] + t[3]) % Base>>
         \o BMulLimb[<<Tail(t[1]), t[2], (Head(t[1]) * t[2] + t[3]) \div Base>>]

\* t[1] * t[2]
BMul[t \in Limbs \X Limbs] ==
    IF t[1] = <<>> \/ t[2] = <<>> THEN <<>>
    ELSE Trim[BAdd[<<BMulLimb[<<t[1], Head(t[2]), 0>>],
                     <<0>> \o BMul[<<t[1], Tail(t[2])>>]>>]]

BDouble[a \in Limbs] == BAdd[<<a, a>>]

BHalf[a \in Limbs] ==
    Trim[[i \in 1..Len(a) |->
             (a[i] \div 2)
             + (IF i < Len(a) THEN (a[i + 1] % 2) * (Base \div 2) ELSE 0)]]

BOdd(a) == a # <<>> /\ a[1] % 2 = 1

\* t[1] * 2^t[2]
BShl[t \in Limbs \X Nat] ==
    IF t[2] = 0 THEN t[1] ELSE BShl[<<BDouble[t[1]], t[2] - 1>>]

LimbBits[d \in Nat] == IF d = 0 THEN 0 ELSE 1 + LimbBits[d \div 2]

BitLen[a \in Limbs] ==
    IF a = <<>> THEN 0
    ELSE (LimbBits[Base] - 1) * (Len(a) - 1) + LimbBits[a[Len(a)]]

FromNat[n \in Nat] ==
    IF n = 0 THEN <<>> ELSE <<n % Base>> \o FromNat[n \div Base]

\* the exact value t.m * 2^t.e, t.m of at most Precision bits, as a float
NormUp[t \in Floats] ==
    IF BitLen[t.m] < Precision THEN NormUp[[m |-> BDouble[t.m], e |-> t.e - 1]]
    ELSE t

\* the float nearest to (x + f) * 2^e, where 0 <= f < 1 is given by its
\* first bit g and by s (whether bits follow); ties go to the even mantissa
RoundUp[t \in Floats] ==
    IF BitLen[t.m] > Precision THEN [m |-> BHalf[t.m], e |-> t.e + 1]
    ELSE NormUp[t]

RoundArgs == [x : Limbs, e : Int, g : BOOLEAN, s : BOOLEAN]

Round[t \in RoundArgs] ==
    IF BitLen[t.x] > Precision
    THEN Round[[x |-> BHalf[t.x], e |-> t.e + 1, g |-> BOdd(t.x),
                s |-> t.s \/ t.g]]
    ELSE IF t.g /\ (t.s \/ BOdd(t.x))
         THEN RoundUp[[m |-> BAdd[<<t.x, <<1>>>>], e |-> t.e]]
         ELSE NormUp[[m |-> t.x, e |-> t.e]]

\* float(n) for an integer n >= 1
FromInt[n \in Nat] == NormUp[[m |-> FromNat[n], e |-> 0]]

\* t[1] * t[2]
FMul[t \in Floats \X Floats] ==
    Round[[x |-> BMul[<<t[1].m, t[2].m>>], e |-> t[1].e + t[2].e,
           g |-> FALSE, s |-> FALSE]]

MinOf(i, j) == IF i < j THEN i ELSE j

\* t[1] = [x, e] plus the float t[2], exactly
AlignedSum[t \in Exacts \X Floats] ==
    [x |-> BAdd[<<BShl[<<t[1].x, t[1].e - MinOf(t[1].e, t[2].e)>>],
                  BShl[<<t[2].m, t[2].e - MinOf(t[1].e, t[2].e)>>]>>],
     e |-> MinOf(t[1].e, t[2].e)]

\* the float nearest to the exact value t
AddRounded[t \in Exacts] ==
    Round[[x |-> t.x, e |-> t.e, g |-> FALSE, s |-> FALSE]]

\* states of the long division of a remainder r by d
DivStates == [q : Limbs, r : Limbs, d : Limbs, k : Nat]

\* the float nearest to the quotient of the long division t[1], scaled by
\* 2^t[2]
DivRounded[t \in DivStates \X Int] ==
    Round[[x |-> t[1].q, e |-> t[2], g |-> FALSE, s |-> t[1].r # <<>>]]

\* the exact sum of the floats of ws, as [x, e] with value x * 2^e
ExactSum[ws \in Seq(Floats)] ==
    IF ws = <<>> THEN [x |-> <<>>, e |-> 0]
    ELSE IF Len(ws) = 1 THEN [x |-> ws[1].m, e |-> ws[1].e]
    ELSE AlignedSum[<<ExactSum[Tail(ws)], ws[1]>>]

\* t[1] + t[2]
FAdd[t \in Floats \X Floats] ==
    AddRounded[ExactSum[<<t[1], t[2]>>]]

\* long division: quotient q and remainder r after k more quotient bits
DivSteps[t \in DivStates] ==
    IF t.k = 0 THEN t
    ELSE IF BLess[<<BDouble[t.r], t.d>>]
         THEN DivSteps[[q |-> BDouble[t.q], r |-> BDouble[t.r], d |-> t.d,
                        k |-> t.k - 1]]
         ELSE DivSteps[[q |-> BAdd[<<BDouble[t.q], <<1>>>>],
                        r |-> BSub[<<BDouble[t.r], t.d>>], d |-> t.d,
                        k |-> t.k - 1]]

\* t[1] / t[2]
FDiv[t \in Floats \X Floats] ==
    DivRounded[<<DivSteps[IF BLess[<<t[1].m, t[2].m>>]
                          THEN [q |-> <<>>, r |-> t[1].m, d |-> t[2].m,
                                k |-> Precision + 2]
                          ELSE [q |-> <<1>>, r |-> BSub[<<t[1].m, t[2].m>>],
                                d |-> t[2].m, k |-> Precision + 2]],
                 t[1].e - t[2].e - (Precision + 2)>>]

\* t[1] > t[2]
FGreater[t \in Floats \X Floats] ==
    t[1].e > t[2].e \/ (t[1].e = t[2].e /\ BLess[<<t[2].m, t[1].m>>])

\* the literals 0.3, 0.2 and 0.5
Float03 == FDiv[<<FromInt[3], FromInt[10]>>]
Float02 == FDiv[<<FromInt[2], FromInt[10]>>]
Float05 == FDiv[<<FromInt[5], FromInt[10]>>]

----------------------------------------------------------------------------
(* Column widths, beautify_report lines 63-74 *)

\* lines 64-68
ProportionalWidths[w \in Floats] ==
    <<FMul[<<w, Float03>>], FMul[<<w, Float02>>], FMul[<<w, Float05>>]>>

\* sum(col_widths): 0 + w1 + w2 + w3, added left to right
TotalWidth[ws \in Seq(Floats)] == FAdd[<<FAdd[<<ws[1], ws[2]>>], ws[3]>>]

\* lines 74: every width times scale_factor
Scaled[t \in Seq(Floats) \X Floats] ==
    [i \in 1..Len(t[1]) |-> FMul[<<t[1][i], t[2]>>]]

RescaleArgs == [ws : Seq(Floats), total_width : Floats, w : Floats]

\* lines 71-74, for the widths ws, their total and the available width w
Rescaled[t \in RescaleArgs] ==
    IF FGreater[<<t.total_width, t.w>>]
    THEN Scaled[<<t.ws, FDiv[<<t.w, t.total_width>>]>>]
    ELSE t.ws

WithTotal[t \in Seq(Floats) \X Floats] ==
    Rescaled[[ws |-> t[1], total_width |-> TotalWidth[t[1]], w |-> t[2]]]

\* col_widths of lines 63-74 for available_width = w
ColumnWidths[w \in Floats] == WithTotal[<<ProportionalWidths[w], w>>]

----------------------------------------------------------------------------
(* Table parsing, beautify_report lines 28-35 *)

\* [c.strip() for c in line.split('|')[1:-1]]
Cells(line) ==
    LET inner == SliceInner(Split(line, "|"))
    IN  [i \in 1..Len(inner) |-> Strip(inner[i])]

\* lines = table_content.strip().split('\n')
Lines(tc) == Split(Strip(tc), "\n")

\* the rows of `for line in lines[2:]: if line.strip(): data.append(...)`
RECURSIVE Rows(_)
Rows(ls) ==
    IF ls = <<>> THEN <<>>
    ELSE IF Strip(Head(ls)) # <<>> THEN <<Cells(Head(ls))>> \o Rows(Tail(ls))
    ELSE Rows(Tail(ls))

\* lines[0] raises IndexError on an empty list
ParseRaises(tc) == Len(Lines(tc)) = 0

ParseHeaders(tc) == IF ParseRaises(tc) THEN <<>> ELSE Cells(Lines(tc)[1])

ParseData(tc) == IF ParseRaises(tc) THEN <<>> ELSE Rows(SliceFrom(Lines(tc), 2))

----------------------------------------------------------------------------
(* Report naming and output, beautify_report lines 19-26 and 103-107 *)

\* Path(pdf_path).stem ; a pdf path is <<directory, base name, extension>>
Stem(pdf_path) == pdf_path[2]

\* datetime.now().strftime("%Y%m%d_%H%M%S"): whole seconds
Timestamp(t) == t \div TicksPerSecond

\* report_dir / f"{original_pdf_name}_analysis_report_{timestamp}.pdf"
ReportPath(pdf_path, t) == <<"reports", Stem(pdf_path), Timestamp(t)>>

\* One call beautify_report(tc, pdf_path). The fpdf_table calls between
\* parsing and pdf.output are layout only and are taken to return.
beautify_report(tc, pdf_path) ==
    /\ table_content' = tc
    /\ raised' = ParseRaises(tc)
    /\ headers' = ParseHeaders(tc)
    /\ data' = ParseData(tc)
    /\ calls' = calls + 1
    /\ IF ParseRaises(tc)
       THEN UNCHANGED <<report_files, render_log>>
       ELSE /\ report_files' = report_files \cup {ReportPath(pdf_path, now)}
            /\ render_log' = Append(render_log, ReportPath(pdf_path, now))

----------------------------------------------------------------------------
(* Inputs *)

HeaderLine == <<"|", " ", "N", " ", "|", " ", "C", " ", "|", " ", "U", " ", "|">>
SeparatorLine == <<"|", "-", "|", "-", "|", "-", "|">>
Row3 == <<"|", " ", "A", " ", "|", " ", "1", " ", "|", " ", "s", " ", "|">>
Row2 == <<"|", " ", "B", " ", "|", " ", "2", " ", "|">>
Row4 == <<"|", " ", "D", " ", "|", " ", "3", " ", "|", " ", "t", " ", "|", " ", "x", " ", "|">>
Prose == <<"a", "b">>
Blank == <<" ">>
Bar == <<"|">>
NotSpecified == <<"N", "o", "t", " ", "s", "p", "e", "c", "i", "f", "i", "e", "d">>

LinePool == {HeaderLine, SeparatorLine, Row3, Row2, Row4, Prose, Blank, Bar}

LineSeqs == UNION {[1..n -> LinePool] : n \in 0..MaxLines}

PdfPaths == {<<"in", "doc", "pdf">>, <<"old", "doc", "pdf">>,
             <<"in", "msds", "pdf">>}

NormPdf == <<"in", "doc", "pdf">>

RenderTexts == {Join(<<HeaderLine, SeparatorLine, Row3>>, <<"\n">>),
                Join(<<HeaderLine, SeparatorLine>>, <<"\n">>)}

\* The persisted table text: the header line, then one line per row, each
\* "| c1 | c2 | c3 |", no separator line.
RowLine(cells) == <<"|", " ">> \o Join(cells, <<" ", "|", " ">>) \o <<" ", "|">>

Serialize(hs, rows) ==
    Join(<<RowLine(hs)>> \o [i \in 1..Len(rows) |-> RowLine(rows[i])], <<"\n">>)

----------------------------------------------------------------------------
(* The analysis script *)

\* an optional value (None or a value): <<>> or <<v>>
None == <<>>
Some(v) == <<v>>

\* extract_text_from_pdf: one section per page that has text; "" when the
\* document cannot be opened
RECURSIVE PageSections(_, _, _)
PageSections(i, n, text_pages) ==
    IF i > n THEN <<>>
    ELSE (IF i \in text_pages THEN <<"--- Page ---", "text">> ELSE <<>>)
             \o PageSections(i + 1, n, text_pages)

extract_text_from_pdf(d) ==
    IF d.opens THEN PageSections(1, d.pages, d.text_pages) ELSE <<>>

\* take_screenshots_of_pdf: pix.save of page fail_at raises (0: none does);
\* the pages before it are saved, and [] is returned on any exception
SavedPages(d, fail_at) ==
    IF ~d.opens THEN {}
    ELSE IF fail_at = 0 THEN 1..d.pages ELSE 1..(fail_at - 1)

take_screenshots_of_pdf(d, fail_at) ==
    IF d.opens /\ fail_at = 0 THEN [i \in 1..d.pages |-> i] ELSE <<>>

\* the image loop of prepare_gemini_input when a failed Image.open ends it
RECURSIVE LoadImagesUntilFailure(_, _)
LoadImagesUntilFailure(image_paths, ok) ==
    IF image_paths = <<>> THEN <<>>
    ELSE IF Head(image_paths) \in ok
         THEN <<[kind |-> "image", path |-> Head(image_paths)]>>
                  \o LoadImagesUntilFailure(Tail(image_paths), ok)
         ELSE <<>>

\* the image loop of prepare_gemini_input, lines 75-89
RECURSIVE LoadImages(_, _)
LoadImages(image_paths, ok) ==
    IF image_paths = <<>> THEN <<>>
    ELSE (IF Head(image_paths) \in ok
          THEN <<[kind |-> "image", path |-> Head(image_paths)]>>
          ELSE <<>>)
             \o LoadImages(Tail(image_paths), ok)

prepare_gemini_input(text, image_paths, ok) ==
    <<[kind |-> "prompt", path |-> 0]>>
    \o (IF text # <<>>
        THEN <<[kind |-> "text_label", path |-> 0], [kind |-> "text", path |-> 0]>>
        ELSE <<>>)
    \o (IF image_paths # <<>>
        THEN <<[kind |-> "image_label", path |-> 0]>> \o LoadImages(image_paths, ok)
        ELSE <<>>)

\* f"Error: Failed to get response from Gemini. {e}"
ErrorText(e) ==
    <<"E", "r", "r", "o", "r", ":", " ", "F", "a", "i", "l", "e", "d",
        " ", "t", "o", " ", "g", "e", "t", " ", "r", "e", "s", "p", "o",
        "n", "s", "e", " ", "f", "r", "o", "m", " ", "G", "e", "m", "i",
        "n", "i", ".", " ">>
        \o e

NoResponse ==
    [raised |-> FALSE, text |-> <<>>, has_usage |-> FALSE, usage_metadata |-> None]

\* lines 109-126 raise when usage_metadata is None (attribute access) or a
\* token count is None (addition, division)
UsageReportRaises(r) ==
    /\ r.has_usage
    /\ \/ r.usage_metadata = None
       \/ r.usage_metadata[1].prompt_token_count = None
       \/ r.usage_metadata[1].candidates_token_count = None

\* the value send_to_gemini returns for the engine outcome r
send_to_gemini(r) ==
    IF r.raised THEN ErrorText(<<"e">>)
    ELSE IF UsageReportRaises(r) THEN ErrorText(<<"e">>)
    ELSE r.text

RECURSIVE NonBlank(_)
NonBlank(ls) ==
    IF ls = <<>> THEN <<>>
    ELSE (IF Strip(Head(ls)) # <<>> THEN <<Head(ls)>> ELSE <<>>)
             \o NonBlank(Tail(ls))

clean_table_response(resp) ==
    Join(NonBlank(Split(Strip(resp), "\n")), <<"\n">>)

Modes == {"text", "screenshots", "both"}

Docs ==
    {d \in [is_file : BOOLEAN, opens : BOOLEAN, pages : 0..MaxPages,
             text_pages : SUBSET (1..MaxPages)] :
        d.text_pages \subseteq 1..d.pages}

TokenCounts == {None, Some(1200)}

UsageMetadata ==
    {None} \cup
    {Some([prompt_token_count |-> a, candidates_token_count |-> b]) :
        a \in TokenCounts, b \in TokenCounts}

ResponseTexts ==
    {Join(<<HeaderLine, SeparatorLine, Row3>>, <<"\n">>),
     Join(<<Blank, HeaderLine, <<>>, SeparatorLine, Row3, Blank>>, <<"\n">>)}

\* what client.models.generate_content can do: raise, or return a response
EngineOutcomes ==
    {[raised |-> TRUE, text |-> <<>>, has_usage |-> FALSE, usage_metadata |-> None]}
    \cup
    {r \in [raised : {FALSE}, text : ResponseTexts, has_usage : BOOLEAN,
             usage_metadata : UsageMetadata] :
        r.has_usage \/ r.usage_metadata = None}

\* the script has not been started
RunIdle ==
    /\ args = [mode |-> "text", skip_gemini |-> FALSE, cleanup |-> FALSE]
    /\ doc = [is_file |-> FALSE, opens |-> FALSE, pages |-> 0, text_pages |-> {}]
    /\ loadable = {}
    /\ pc = "idle"
    /\ extracted_text = <<>>
    /\ screenshot_paths = <<>>
    /\ screenshot_files = {}
    /\ content_parts = <<>>
    /\ response = NoResponse
    /\ engine_calls = 0
    /\ gemini_response = <<>>
    /\ text_output = None
    /\ cleanup_idx = 1
    /\ screenshots_dir = FALSE

\* no table is being laid out
LayoutIdle ==
    /\ available_width = FromInt[1]
    /\ col_widths = <<>>
    /\ wpc = "idle"

----------------------------------------------------------------------------
(* Specification SpecNorm: one response text is normalized, persisted and *)
(* normalized again.                                                       *)

InitNorm ==
    /\ src_lines \in LineSeqs
    /\ table_content = Join(src_lines, <<"\n">>)
    /\ headers = <<>>
    /\ data = <<>>
    /\ raised = FALSE
    /\ calls = 0
    /\ first_data = <<>>
    /\ rpc = "ready"
    /\ now = 0
    /\ report_files = {}
    /\ render_log = <<>>
    /\ RunIdle
    /\ LayoutIdle

NormalizeResponse ==
    /\ rpc = "ready"
    /\ beautify_report(table_content, NormPdf)
    /\ rpc' = "done"
    /\ first_data' = IF calls = 0 THEN ParseData(table_content) ELSE first_data
    /\ UNCHANGED <<src_lines, now>>
    /\ UNCHANGED run_vars
    /\ UNCHANGED layout_vars

Reserialize ==
    /\ rpc = "done"
    /\ calls = 1
    /\ ~raised
    /\ table_content' = Serialize(headers, data)
    /\ rpc' = "ready"
    /\ UNCHANGED <<src_lines, headers, data, raised, calls, first_data, now,
                   report_files, render_log>>
    /\ UNCHANGED run_vars
    /\ UNCHANGED layout_vars

NextNorm == NormalizeResponse \/ Reserialize

SpecNorm == InitNorm /\ [][NextNorm]_vars

----------------------------------------------------------------------------
(* Specification SpecRender: a sequence of beautify_report calls while the *)
(* clock advances.                                                         *)

InitRender ==
    /\ src_lines = <<>>
    /\ table_content = <<>>
    /\ headers = <<>>
    /\ data = <<>>
    /\ raised = FALSE
    /\ calls = 0
    /\ first_data = <<>>
    /\ rpc = "done"
    /\ now = 0
    /\ report_files = {}
    /\ render_log = <<>>
    /\ RunIdle
    /\ LayoutIdle

Render ==
    /\ calls < MaxRenders
    /\ \E tc \in RenderTexts, pp \in PdfPaths : beautify_report(tc, pp)
    /\ UNCHANGED <<src_lines, first_data, rpc, now>>
    /\ UNCHANGED run_vars
    /\ UNCHANGED layout_vars

Tick ==
    /\ now < MaxNow
    /\ now' = now + 1
    /\ UNCHANGED <<src_lines, table_content, headers, data, raised, calls,
                   first_data, rpc, report_files, render_log>>
    /\ UNCHANGED run_vars
    /\ UNCHANGED layout_vars

NextRender == Render \/ Tick

SpecRender == InitRender /\ [][NextRender]_vars

----------------------------------------------------------------------------
(* Specification SpecRun: one run of the analysis script *)

ReportIdle ==
    /\ src_lines = <<>>
    /\ table_content = <<>>
    /\ headers = <<>>
    /\ data = <<>>
    /\ raised = FALSE
    /\ calls = 0
    /\ first_data = <<>>
    /\ rpc = "done"
    /\ now = 0
    /\ report_files = {}
    /\ render_log = <<>>

InitRun ==
    /\ args \in [mode : Modes, skip_gemini : BOOLEAN, cleanup : BOOLEAN]
    /\ doc \in Docs
    /\ loadable \in SUBSET (1..MaxPages)
    /\ pc = "start"
    /\ extracted_text = <<>>
    /\ screenshot_paths = <<>>
    /\ screenshot_files = {}
    /\ content_parts = <<>>
    /\ response = NoResponse
    /\ engine_calls = 0
    /\ gemini_response = <<>>
    /\ text_output = None
    /\ cleanup_idx = 1
    /\ screenshots_dir = FALSE
    /\ ReportIdle
    /\ LayoutIdle

\* lines 163-166
CheckPdfFile ==
    /\ pc = "start"
    /\ pc' = IF doc.is_file THEN "checked" ELSE "exit1"
    /\ UNCHANGED <<args, doc, loadable, extracted_text, screenshot_paths,
                   screenshot_files, content_parts, response, engine_calls,
                   gemini_response, text_output, cleanup_idx>>
    /\ UNCHANGED screenshots_dir
    /\ UNCHANGED report_vars
    /\ UNCHANGED layout_vars

\* lines 177-194
Extract ==
    /\ pc = "checked"
    /\ \E fail_at \in 0..doc.pages :
         LET txt == IF args.mode \in {"text", "both"}
                    THEN extract_text_from_pdf(doc) ELSE <<>>
             shots == IF args.mode \in {"screenshots", "both"}
                      THEN take_screenshots_of_pdf(doc, fail_at) ELSE <<>>
             saved == IF args.mode \in {"screenshots", "both"}
                      THEN SavedPages(doc, fail_at) ELSE {}
         IN  /\ extracted_text' = txt
             /\ screenshot_paths' = shots
             /\ screenshot_files' = saved
             /\ screenshots_dir' =
                    (screenshots_dir \/ args.mode \in {"screenshots", "both"})
             /\ pc' = IF txt = <<>> /\ shots = <<>> THEN "exit1" ELSE "extracted"
    /\ UNCHANGED <<args, doc, loadable, content_parts, response, engine_calls,
                   gemini_response, text_output, cleanup_idx>>
    /\ UNCHANGED report_vars
    /\ UNCHANGED layout_vars

\* lines 196-203
SkipGemini ==
    /\ pc = "extracted"
    /\ args.skip_gemini
    /\ text_output' = IF extracted_text # <<>> THEN Some(extracted_text)
                      ELSE text_output
    /\ pc' = "exit0"
    /\ UNCHANGED <<args, doc, loadable, extracted_text, screenshot_paths,
                   screenshot_files, content_parts, response, engine_calls,
                   gemini_response, cleanup_idx>>
    /\ UNCHANGED screenshots_dir
    /\ UNCHANGED report_vars
    /\ UNCHANGED layout_vars

\* line 236
PrepareInput ==
    /\ pc = "extracted"
    /\ ~args.skip_gemini
    /\ content_parts' =
           prepare_gemini_input(extracted_text, screenshot_paths, loadable)
    /\ pc' = "prepared"
    /\ UNCHANGED <<args, doc, loadable, extracted_text, screenshot_paths,
                   screenshot_files, response, engine_calls, gemini_response,
                   text_output, cleanup_idx>>
    /\ UNCHANGED screenshots_dir
    /\ UNCHANGED report_vars
    /\ UNCHANGED layout_vars

\* line 237
SendToGemini ==
    /\ pc = "prepared"
    /\ \E r \in EngineOutcomes :
         /\ response' = r
         /\ gemini_response' = send_to_gemini(r)
    /\ engine_calls' = engine_calls + 1
    /\ pc' = "responded"
    /\ UNCHANGED <<args, doc, loadable, extracted_text, screenshot_paths,
                   screenshot_files, content_parts, text_output, cleanup_idx>>
    /\ UNCHANGED screenshots_dir
    /\ UNCHANGED report_vars
    /\ UNCHANGED layout_vars

\* lines 258-261
SaveResponse ==
    /\ pc = "responded"
    /\ text_output' = Some(clean_table_response(gemini_response))
    /\ pc' = "saved"
    /\ UNCHANGED <<args, doc, loadable, extracted_text, screenshot_paths,
                   screenshot_files, content_parts, response, engine_calls,
                   gemini_response, cleanup_idx>>
    /\ UNCHANGED screenshots_dir
    /\ UNCHANGED report_vars
    /\ UNCHANGED layout_vars

CleanupRequested == args.cleanup /\ screenshot_paths # <<>>

\* the cleanup loop without the try/except of lines 267-270: a failing
\* os.remove ends the script
RemoveScreenshotOrAbort ==
    /\ pc = "saved"
    /\ CleanupRequested
    /\ cleanup_idx <= Len(screenshot_paths)
    /\ \E ok \in BOOLEAN :
         /\ screenshot_files' =
                IF ok THEN screenshot_files \ {screenshot_paths[cleanup_idx]}
                ELSE screenshot_files
         /\ pc' = IF ok THEN pc ELSE "exit1"
    /\ cleanup_idx' = cleanup_idx + 1
    /\ UNCHANGED <<args, doc, loadable, extracted_text, screenshot_paths,
                   content_parts, response, engine_calls, gemini_response,
                   text_output, screenshots_dir>>
    /\ UNCHANGED report_vars
    /\ UNCHANGED layout_vars

\* lines 266-270, one iteration: os.remove succeeds or raises
RemoveScreenshot ==
    /\ pc = "saved"
    /\ CleanupRequested
    /\ cleanup_idx <= Len(screenshot_paths)
    /\ \E ok \in BOOLEAN :
         screenshot_files' =
             IF ok THEN screenshot_files \ {screenshot_paths[cleanup_idx]}
             ELSE screenshot_files
    /\ cleanup_idx' = cleanup_idx + 1
    /\ UNCHANGED <<args, doc, loadable, pc, extracted_text, screenshot_paths,
                   content_parts, response, engine_calls, gemini_response,
                   text_output, screenshots_dir>>
    /\ UNCHANGED report_vars
    /\ UNCHANGED layout_vars

\* lines 271-276: os.rmdir succeeds (only on an empty directory) or raises,
\* then the script ends
RemoveDirAndFinish ==
    /\ pc = "saved"
    /\ CleanupRequested
    /\ cleanup_idx > Len(screenshot_paths)
    /\ \E ok \in BOOLEAN :
         screenshots_dir' =
             IF ok /\ screenshot_files = {} THEN FALSE ELSE screenshots_dir
    /\ pc' = "finished"
    /\ UNCHANGED <<args, doc, loadable, extracted_text, screenshot_paths,
                   screenshot_files, content_parts, response, engine_calls,
                   gemini_response, text_output, cleanup_idx>>
    /\ UNCHANGED report_vars
    /\ UNCHANGED layout_vars

\* lines 264 and 276 when no cleanup is requested
Finish ==
    /\ pc = "saved"
    /\ ~CleanupRequested
    /\ pc' = "finished"
    /\ UNCHANGED <<args, doc, loadable, extracted_text, screenshot_paths,
                   screenshot_files, content_parts, response, engine_calls,
                   gemini_response, text_output, cleanup_idx>>
    /\ UNCHANGED screenshots_dir
    /\ UNCHANGED report_vars
    /\ UNCHANGED layout_vars

NextRun ==
    \/ CheckPdfFile
    \/ Extract
    \/ SkipGemini
    \/ PrepareInput
    \/ SendToGemini
    \/ SaveResponse
    \/ RemoveScreenshot
    \/ RemoveDirAndFinish
    \/ Finish

SpecRun == InitRun /\ [][NextRun]_vars

\* the script is one sequential process: once the result is saved, each
\* statement of lines 264-276 returns and the next one runs
SpecRunFair ==
    /\ SpecRun
    /\ WF_vars(RemoveScreenshot)
    /\ WF_vars(RemoveDirAndFinish)
    /\ WF_vars(Finish)

----------------------------------------------------------------------------
(* Specification SpecLayout: the column widths of one report, for an       *)
(* available width of n tenths of a unit (the float n / 10.0).            *)

AvailableWidths == {FDiv[<<FromInt[n], FromInt[10]>>] : n \in 1..MaxTenths}

InitLayout ==
    /\ available_width \in AvailableWidths
    /\ col_widths = <<>>
    /\ wpc = "input"
    /\ ReportIdle
    /\ RunIdle

LayOutTable ==
    /\ wpc = "input"
    /\ col_widths' = ColumnWidths[available_width]
    /\ wpc' = "laid_out"
    /\ UNCHANGED available_width
    /\ UNCHANGED report_vars
    /\ UNCHANGED run_vars

NextLayout == LayOutTable

SpecLayout == InitLayout /\ [][NextLayout]_vars

----------------------------------------------------------------------------
(* Properties of the table parsing (SpecNorm) *)

\* a separator line: only pipe, dash and whitespace characters
IsSeparator(line) ==
    \A i \in 1..Len(line) : line[i] \in ({"|", "-"} \cup Whitespace)

DataLines == {Row3, Row2, Row4}

\* header line, optionally a separator line, then three-cell data lines only
WellFormed(ls) ==
    /\ Len(ls) >= 1
    /\ ls[1] = HeaderLine
    /\ \A i \in 2..Len(ls) : ls[i] = Row3 \/ (i = 2 /\ ls[i] = SeparatorLine)

NumDataLines(ls) == Cardinality({i \in 2..Len(ls) : ls[i] = Row3})

\* header line, separator line, then data lines of two, three or four cells
Tabular(ls) ==
    /\ Len(ls) >= 2
    /\ ls[1] = HeaderLine
    /\ ls[2] = SeparatorLine
    /\ \A i \in 3..Len(ls) : ls[i] \in DataLines

FirstParsed == rpc = "done" /\ calls = 1

\* C1: a well-formed input (header line, optional separator line, N data
\* lines) is parsed into a table of exactly N rows.
C1_RowCountPreserved ==
    (FirstParsed /\ WellFormed(src_lines))
        => Len(data) = NumDataLines(src_lines)

\* C2: the line after the header is skipped only when it is a separator
\* line; a non-separator line after the header is the first data row.
C2_SkipOnlySeparator ==
    (FirstParsed /\ Len(src_lines) >= 2 /\ src_lines[1] = HeaderLine
        /\ src_lines[2] \in DataLines /\ ~IsSeparator(src_lines[2]))
        => (Len(data) >= 1 /\ data[1] = Cells(src_lines[2]))

\* C3: every parsed row has as many cells as the header (three): no data
\* line is dropped, and a line with fewer cells is padded with
\* "Not specified".
C3_RowsHaveHeaderWidth ==
    (FirstParsed /\ Tabular(src_lines))
        => /\ Len(data) = Len(src_lines) - 2
           /\ \A i \in 1..Len(data) : Len(data[i]) = Len(headers)
           /\ \A i \in 1..Len(data) :
                  src_lines[i + 2] = Row2
                      => data[i] = <<<<"B">>, <<"2">>, NotSpecified>>

\* C4: parsing never raises, whatever the input text, and the empty text
\* gives a table without rows.
C4_NeverRaises ==
    (rpc = "done") => (~raised /\ (table_content = <<>> => data = <<>>))

C4_Witness_EmptyParsed ==
    rpc = "done" /\ calls = 1 /\ table_content = <<>> /\ data = <<>> /\ ~raised

\* C5: normalizing the persisted form of a normalized table gives the same
\* table, rows in the same order.
C5_RoundTrip ==
    (rpc = "done" /\ calls = 2 /\ Tabular(src_lines)) => data = first_data

----------------------------------------------------------------------------
(* Properties of the analysis script (SpecRun) *)

Extracted == pc \notin {"idle", "start", "checked"}

Prepared == pc \in {"prepared", "responded", "saved", "finished"}

Responded == pc \in {"responded", "saved", "finished"}

LoadablePaths == SelectSeq(screenshot_paths, LAMBDA q : q \in loadable)

RECURSIVE ImagePaths(_)
ImagePaths(parts) ==
    IF parts = <<>> THEN <<>>
    ELSE (IF Head(parts).kind = "image" THEN <<Head(parts).path>> ELSE <<>>)
             \o ImagePaths(Tail(parts))

\* C6: when no text was extracted and none of the page images can be
\* loaded, the run aborts before any call to the analysis engine.
C6_EmptyEvidenceAborts ==
    (Extracted /\ extracted_text = <<>> /\ LoadablePaths = <<>>)
        => engine_calls = 0

\* C7: when at least one image loads, prepare_gemini_input returns a
\* payload whose images are exactly the images that loaded, in the order of
\* the given paths; the images that failed to load are skipped.
C7_FailedImagesSkipped ==
    (Prepared /\ LoadablePaths # <<>>)
        => ImagePaths(content_parts) = LoadablePaths

C7_Witness_OneCorruptOneValid ==
    /\ pc = "prepared"
    /\ screenshot_paths = <<1, 2>>
    /\ loadable = {2}
    /\ ImagePaths(content_parts) = <<2>>

\* C8: when the engine call fails, no table file is written from the
\* result of the failed call.
C8_FailedCallWritesNothing ==
    response.raised => text_output = None

\* C10: whenever the engine returns a response, send_to_gemini returns the
\* text of that response, whatever the usage metadata contains.
C10_CostNeverGates ==
    (Responded /\ ~response.raised) => gemini_response = response.text

----------------------------------------------------------------------------
(* Properties of the report naming (SpecRender) *)

\* C9: no beautify_report call writes to a path that an earlier call wrote
\* to.
C9_NeverOverwrites ==
    \A i, j \in 1..Len(render_log) : i < j => render_log[i] # render_log[j]

----------------------------------------------------------------------------
(* Properties of the column widths (SpecLayout) *)

\* the exact value t[1] = [x, e] is at most the float t[2]
ExactAtMost[t \in Exacts \X Floats] ==
    ~BLess[<<BShl[<<t[2].m, t[2].e - MinOf(t[1].e, t[2].e)>>],
             BShl[<<t[1].x, t[1].e - MinOf(t[1].e, t[2].e)>>]>>]

----------------------------------------------------------------------------
(* Properties of the cleanup (SpecRunFair) *)

\* a step that deletes a page image
DeletesImage == screenshot_files \ screenshot_files' # {}

\* a step of the cleanup: after the engine call has returned and its cleaned
\* result has been written
CleanupStep ==
    /\ pc = "saved"
    /\ CleanupRequested
    /\ engine_calls = 1
    /\ gemini_response = send_to_gemini(response)
    /\ text_output = Some(clean_table_response(gemini_response))

\* a step of the cleanup loop goes on to the next path, deleting at most the
\* file of the current path, whether or not os.remove failed
LoopGoesOn ==
    (pc = "saved" /\ CleanupRequested /\ cleanup_idx <= Len(screenshot_paths))
        => /\ pc' = "saved"
           /\ cleanup_idx' = cleanup_idx + 1
           /\ screenshot_files \ screenshot_files'
                  \subseteq {screenshot_paths[cleanup_idx]}

\* C12: page images are deleted only by the cleanup step, which runs only
\* after the engine call has returned and its result has been written; a
\* failure to delete a file or the directory does not abort the run: the
\* loop goes on with the remaining files and the script reaches its end.
C12_CleanupNeverAborts ==
    /\ [][(DeletesImage => CleanupStep) /\ LoopGoesOn]_vars
    /\ (pc = "saved") ~> (pc = "finished")

\* both files were tried: the first os.remove failed, the second deleted its
\* file, os.rmdir failed, and the script ended normally
C12_Witness_FailedThenDeleted ==
    /\ pc = "finished"
    /\ CleanupRequested
    /\ screenshot_paths = <<1, 2>>
    /\ screenshot_files = {1}
    /\ cleanup_idx = 3
    /\ screenshots_dir
    /\ text_output # None

====
